---- MODULE Spec2Model ----
(***************************************************************************)
(* Model of Peulicke/csg: the SDF module (smoothMin, union, intersection, *)
(* createFractal, trace) and the renderer (renderImage, renderPartialImage *)
(* with popMax and updateDists).                                           *)
(*                                                                         *)
(* Numbers.  Grid distances are sums of neighbour-offset lengths, that is  *)
(* a + b*sqrt(2) with naturals a, b; they are kept as the pair (a, b) and  *)
(* compared exactly.  Colours are kept as their first channel (the other   *)
(* two channels are 0), so vec3.length of a colour difference is the       *)
(* absolute value of that channel.  Infinity and NaN are explicit values.  *)
(***************************************************************************)
EXTENDS Integers, Sequences, FiniteSets, TLC

\* ------------------------------------------------------------------ bounds
MaxCells == 3
ExtraCalls == 2

\* ------------------------------------------------------- program constants
sampleCount == 32
colorWeight == 32
AlphaOne == 8

VARIABLES
    status,      \* "new" | "image" | "partial" | "error"
    resolution,  \* <<rows, cols>>
    pattern,     \* the multisample pattern identifier passed by the caller
    scene,       \* what renderPixel sees in each cell (model + lights + camera)
    pixels,      \* the visible pixel grid, or NoGrid
    posArray,    \* renderPartialImage's worklist
    dists,       \* distToNearestRenderedPixel, or NoGrid
    shaded,      \* per cell: how many times posToPixel was evaluated
    calls,       \* number of step() calls made so far
    lastResult,  \* "none" | "true" | "false" | "throw": outcome of the last step()
    lastPos,     \* the coordinate popMax returned in the last step(), or NoPos
    lastDraws,   \* the indices randomInt produced in the last popMax
    tr,          \* one call of trace: its loop state and what the sdf returned
    fr,          \* one call of createFractal(copies)(model, lod, k): its call stack
    csg,         \* one evaluation of union / intersection at a point
    ud           \* one call of updateDists: the estimate grid and the work queue

rendererVars == <<status, resolution, pattern, scene, pixels, posArray, dists, shaded,
                  calls, lastResult, lastPos, lastDraws>>
vars == <<status, resolution, pattern, scene, pixels, posArray, dists, shaded,
          calls, lastResult, lastPos, lastDraws, tr, fr, csg, ud>>

Idle == [phase |-> "idle"]

NoGrid == <<>>
NoPos == <<-1, -1>>

\* ------------------------------------------------------------ distances
\* A distance: Infinity, or a + b*sqrt(2).
Infinity == [inf |-> TRUE, a |-> 0, b |-> 0]
Fin(x, y) == [inf |-> FALSE, a |-> x, b |-> y]

\* p + q*sqrt(2) <= 0, for integers p, q.
SurdLeqZero(p, q) ==
    IF p <= 0 /\ q <= 0 THEN TRUE
    ELSE IF p >= 0 /\ q >= 0 THEN FALSE
    ELSE IF p > 0 THEN p * p <= 2 * q * q
    ELSE 2 * q * q <= p * p

\* x <= y on distances.
DistLeq(x, y) ==
    IF y.inf THEN TRUE
    ELSE IF x.inf THEN FALSE
    ELSE SurdLeqZero(x.a - y.a, x.b - y.b)

DistAdd(x, y) ==
    IF x.inf \/ y.inf THEN Infinity ELSE Fin(x.a + y.a, x.b + y.b)

\* ------------------------------------------------------------ grid helpers
Cells(res) == (0 .. res[1] - 1) \X (0 .. res[2] - 1)

\* grid.getCell(g, p, () => undefined): the cell, or "undefined" outside the grid
InGrid(g, p) == p \in DOMAIN g

Offsets8 ==
    << <<-1, -1>>, <<-1, 0>>, <<-1, 1>>, <<0, -1>>, <<0, 1>>, <<1, -1>>, <<1, 0>>, <<1, 1>> >>

Offsets4 == << <<-1, 0>>, <<0, -1>>, <<0, 1>>, <<1, 0>> >>

\* vec2.length(n) of a neighbour offset
OffsetLength(n) == IF n[1] # 0 /\ n[2] # 0 THEN Fin(0, 1) ELSE Fin(1, 0)

\* vec2.gridNeighbors(pos): the 8 neighbours {p, n}
gridNeighbors(pos) ==
    [k \in 1 .. 8 |-> [p |-> <<pos[1] + Offsets8[k][1], pos[2] + Offsets8[k][2]>>,
                       n |-> Offsets8[k]]]

\* vec2.gridEdges(pos): the 4 edge-adjacent neighbours {p}
gridEdges(pos) ==
    [k \in 1 .. 4 |-> [p |-> <<pos[1] + Offsets4[k][1], pos[2] + Offsets4[k][2]>>]]

\* ------------------------------------------------------------ pixels
\* A pixel: colour (first channel; nan when the colour is NaN) and alpha in
\* units of 1/AlphaOne.
Pixel(c, al) == [color |-> c, nan |-> FALSE, alpha |-> al]
NaNPixel(al) == [color |-> 0, nan |-> TRUE, alpha |-> al]
getTransparent == Pixel(0, 0)

RECURSIVE SumAlpha(_)
SumAlpha(ps) == IF ps = <<>> THEN 0 ELSE Head(ps).alpha + SumAlpha(Tail(ps))

RECURSIVE SumColorAlpha(_)
SumColorAlpha(ps) ==
    IF ps = <<>> THEN 0 ELSE Head(ps).color * Head(ps).alpha + SumColorAlpha(Tail(ps))

\* avgPixel: sum(color*alpha) * (1/sum(alpha)); alpha = sum(alpha)/length.
\* With sum(alpha) = 0 the factor is Infinity and 0 * Infinity is NaN.
avgPixel(ps) ==
    LET alpha == SumAlpha(ps)
        color == SumColorAlpha(ps)
    IN  IF alpha = 0 THEN NaNPixel(0)
        ELSE Pixel(color \div alpha, alpha \div Len(ps))

\* ------------------------------------------------------------ sampling
ScoreDen == 12

ValidPatterns == {"1", "8"}
Patterns == ValidPatterns \cup {"4"}

\* getMultisamplePattern with a silent fallback to the single-sample pattern.
getMultisamplePatternFallback(pat) ==
    IF pat = "8" THEN [threw |-> FALSE, offsets |-> <<1, 2, 3, 4, 5, 6, 7, 8>>]
    ELSE [threw |-> FALSE, offsets |-> <<0>>]

\* getMultisamplePattern: the sample offsets of a pattern (named 0 for the
\* pixel centre, 1..8 for the rotated-grid offsets), or a thrown Error.
getMultisamplePattern(pat) ==
    IF pat = "1" THEN [threw |-> FALSE, offsets |-> <<0>>]
    ELSE IF pat = "8" THEN [threw |-> FALSE, offsets |-> <<1, 2, 3, 4, 5, 6, 7, 8>>]
    ELSE [threw |-> TRUE, offsets |-> <<>>]

\* What a scene shows in one cell: the surface colour, whether the ray through
\* the pixel centre hits, and how many of the 8 rotated-grid rays hit.
SceneVals ==
    { [color |-> 0, centre |-> FALSE, cover |-> 0],
      [color |-> 1, centre |-> TRUE, cover |-> 8],
      [color |-> 2, centre |-> TRUE, cover |-> 4] }

\* renderPixel/getPixel: alpha 1 with the shaded colour on a hit, transparent on a miss.
renderPixel(sc, pos, offset) ==
    IF (offset = 0 /\ sc[pos].centre) \/ (offset >= 1 /\ offset <= sc[pos].cover)
    THEN Pixel(sc[pos].color, AlphaOne)
    ELSE getTransparent

\* posToPixel: the multisample average of a cell.
posToPixel(sc, offsets, pos) ==
    avgPixel([k \in 1 .. Len(offsets) |-> renderPixel(sc, pos, offsets[k])])

\* renderImage: every cell shaded, or the pattern's Error.
renderImage(sc, res, pat) ==
    LET pt == getMultisamplePattern(pat)
    IN  IF pt.threw THEN [threw |-> TRUE, pixels |-> NoGrid]
        ELSE [threw |-> FALSE,
              pixels |-> [p \in Cells(res) |-> posToPixel(sc, pt.offsets, p)]]

\* ------------------------------------------------------------ updateDists
\* NeighborPushes without the edge length: d = next.dist.
RECURSIVE NeighborPushesNoEdge(_, _, _, _)
NeighborPushesNoEdge(ds, cell, next, k) ==
    IF k > 8 THEN <<>>
    ELSE LET nb == gridNeighbors(next.pos)[k]
             more == NeighborPushesNoEdge(ds, cell, next, k + 1)
         IN  IF ~InGrid(ds, nb.p) THEN more
             ELSE IF DistLeq(cell.dist, next.dist) THEN more
             ELSE <<[pixel |-> next.pixel, pos |-> nb.p, dist |-> next.dist]>> \o more

\* Every neighbour inside the grid, whatever its candidate distance.
RECURSIVE AllNeighborPushes(_, _, _)
AllNeighborPushes(ds, next, k) ==
    IF k > 8 THEN <<>>
    ELSE LET nb == gridNeighbors(next.pos)[k]
             more == AllNeighborPushes(ds, next, k + 1)
         IN  IF ~InGrid(ds, nb.p) THEN more
             ELSE <<[pixel |-> next.pixel, pos |-> nb.p,
                     dist |-> DistAdd(next.dist, OffsetLength(nb.n))]>> \o more

\* The loop body without the distance tests: every entry overwrites its cell
\* and enqueues the neighbours.
UpdateDistsIterUnguarded(st) ==
    LET next == Head(st.queue)
    IN  [dists |-> [st.dists EXCEPT ![next.pos] = [pixel |-> next.pixel, dist |-> next.dist]],
         queue |-> Tail(st.queue) \o AllNeighborPushes(st.dists, next, 1)]

\* The neighbours an overwritten cell enqueues: those inside the grid whose
\* candidate distance d is below the overwritten cell's previous distance.
RECURSIVE NeighborPushes(_, _, _, _)
NeighborPushes(ds, cell, next, k) ==
    IF k > 8 THEN <<>>
    ELSE LET nb == gridNeighbors(next.pos)[k]
             d == DistAdd(next.dist, OffsetLength(nb.n))
             more == NeighborPushes(ds, cell, next, k + 1)
         IN  IF ~InGrid(ds, nb.p) THEN more
             ELSE IF DistLeq(cell.dist, d) THEN more
             ELSE <<[pixel |-> next.pixel, pos |-> nb.p, dist |-> d]>> \o more

\* One iteration of updateDists' while loop on a non-empty queue.
UpdateDistsIter(st) ==
    LET next == Head(st.queue)
        rest == Tail(st.queue)
    IN  IF ~InGrid(st.dists, next.pos) THEN [dists |-> st.dists, queue |-> rest]
        ELSE LET cell == st.dists[next.pos]
             IN  IF DistLeq(cell.dist, next.dist) THEN [dists |-> st.dists, queue |-> rest]
                 ELSE [dists |-> [st.dists EXCEPT ![next.pos] =
                                     [pixel |-> next.pixel, dist |-> next.dist]],
                       queue |-> rest \o NeighborPushes(st.dists, cell, next, 1)]

RECURSIVE UpdateDistsLoop(_)
UpdateDistsLoop(st) ==
    IF st.queue = <<>> THEN st.dists ELSE UpdateDistsLoop(UpdateDistsIter(st))

\* updateDists with the rendered position enqueued one cell away from itself.
updateDistsFromOne(ds, pixel, pos) ==
    UpdateDistsLoop([dists |-> ds, queue |-> <<[pixel |-> pixel, pos |-> pos, dist |-> Fin(1, 0)]>>])

updateDists(ds, pixel, pos) ==
    UpdateDistsLoop([dists |-> ds, queue |-> <<[pixel |-> pixel, pos |-> pos, dist |-> Fin(0, 0)]>>])

\* ------------------------------------------------------------ scores
\* A score: NaN, -Infinity, +Infinity, or (a + b*sqrt(2)) / ScoreDen.
ScoreNaN == [kind |-> "nan", a |-> 0, b |-> 0]
ScoreNegInf == [kind |-> "-inf", a |-> 0, b |-> 0]
ScorePosInf == [kind |-> "inf", a |-> 0, b |-> 0]
ScoreFin(x, y) == [kind |-> "fin", a |-> x, b |-> y]
ScoreThrow == [kind |-> "throw", a |-> 0, b |-> 0]

\* x <= y as JavaScript compares numbers: false when either is NaN.
ScoreLeq(x, y) ==
    IF x.kind = "nan" \/ y.kind = "nan" THEN FALSE
    ELSE IF x.kind = "-inf" \/ y.kind = "inf" THEN TRUE
    ELSE IF x.kind = "inf" \/ y.kind = "-inf" THEN FALSE
    ELSE SurdLeqZero(x.a - y.a, x.b - y.b)

Abs(x) == IF x < 0 THEN -x ELSE x

\* The in-grid edge neighbours' estimated colours (getColorDiff's `colors`).
EdgeColors(ds, pos) ==
    LET es == gridEdges(pos)
        inside == SelectSeq([k \in 1 .. 4 |-> es[k].p], LAMBDA p : InGrid(ds, p))
    IN  [k \in 1 .. Len(inside) |-> ds[inside[k]].pixel]

RECURSIVE SumColor(_)
SumColor(ps) == IF ps = <<>> THEN 0 ELSE Head(ps).color + SumColor(Tail(ps))

\* step's getScore: distScore + 32 * colorScore.  colors.reduce without an
\* initial value throws a TypeError on an empty array.
getScore(ds, pos) ==
    LET colors == EdgeColors(ds, pos)
        own == ds[pos].pixel
        anyNaN == own.nan \/ \E k \in 1 .. Len(colors) : colors[k].nan
    IN  IF colors = <<>> THEN ScoreThrow
        ELSE IF anyNaN THEN ScoreNaN
        ELSE IF ds[pos].dist.inf THEN ScorePosInf
        ELSE ScoreFin(ScoreDen * ds[pos].dist.a
                        + colorWeight * Abs(SumColor(colors) * (ScoreDen \div Len(colors))
                                            - ScoreDen * own.color),
                      ScoreDen * ds[pos].dist.b)

\* ------------------------------------------------------------ popMax
\* get(array, i) on a 0-based index
get(array, i) == array[i + 1]

\* array.slice in place of array.splice: nothing is removed.
sliceKeepsAll(array, i) == array

\* array.splice(i, 1): the array without index i; a negative i counts from the end.
splice(array, i) ==
    LET at == IF i < 0 THEN Len(array) + i ELSE i
    IN  [k \in 1 .. Len(array) - 1 |-> IF k <= at THEN array[k] ELSE array[k + 1]]

\* The indices.forEach of popMax from the k-th index on: a candidate replaces
\* the maximum unless score <= maxScore.
RECURSIVE PopMaxLoop(_, _, _, _)
PopMaxLoop(scores, indices, k, acc) ==
    IF k > Len(indices) THEN acc
    ELSE LET i == indices[k]
             score == get(scores, i)
         IN  IF score.kind = "throw" THEN [threw |-> TRUE, maxScore |-> acc.maxScore, maxIndex |-> acc.maxIndex]
             ELSE IF ScoreLeq(score, acc.maxScore) THEN PopMaxLoop(scores, indices, k + 1, acc)
             ELSE PopMaxLoop(scores, indices, k + 1,
                             [threw |-> FALSE, maxScore |-> score, maxIndex |-> i])

\* popMax(array, getScore, sampleCount, random) with the scores of the array's
\* elements and the indices randomInt returns: undefined on an empty array,
\* else the element at maxIndex, which is spliced out.
popMax(array, scores, indices) ==
    IF Len(array) = 0 THEN [kind |-> "undefined", value |-> NoPos, array |-> array]
    ELSE LET r == PopMaxLoop(scores, indices, 1,
                             [threw |-> FALSE, maxScore |-> ScoreNegInf, maxIndex |-> -1])
         IN  IF r.threw THEN [kind |-> "throw", value |-> NoPos, array |-> array]
             ELSE [kind |-> "value",
                   value |-> IF r.maxIndex < 0 THEN array[Len(array)] ELSE get(array, r.maxIndex),
                   array |-> splice(array, r.maxIndex)]

\* ------------------------------------------------------------ renderer
\* The resolutions rendered: every grid of at most MaxCells cells, and the
\* smallest grid that has diagonal neighbours.
Resolutions ==
    {res \in (1 .. MaxCells) \X (1 .. MaxCells) : res[1] * res[2] <= MaxCells}
        \cup {<<2, 2>>}

\* pixels.flatMap((row, i) => row.map((_, j) => [i, j])): row-major coordinates
RowMajor(res) ==
    [k \in 1 .. res[1] * res[2] |-> <<(k - 1) \div res[2], (k - 1) % res[2]>>]

\* The index sequences the random source may produce for a worklist of n
\* elements: the first draw and the value of the 31 draws after it.
DrawChoices(n) ==
    IF n = 0 THEN {<<>>}
    ELSE {[k \in 1 .. sampleCount |-> IF k = 1 THEN i ELSE j] : i \in 0 .. n - 1, j \in 0 .. n - 1}

Init ==
    /\ status = "new"
    /\ resolution \in Resolutions
    /\ pattern \in Patterns
    /\ scene \in [Cells(resolution) -> SceneVals]
    /\ pixels = NoGrid
    /\ posArray = <<>>
    /\ dists = NoGrid
    /\ shaded = [p \in Cells(resolution) |-> 0]
    /\ calls = 0
    /\ lastResult = "none"
    /\ lastPos = NoPos
    /\ lastDraws = <<>>
    /\ tr = Idle /\ fr = Idle /\ csg = Idle /\ ud = Idle

\* renderImage(renderPixel)(model, lightSources, resolution, pattern)
RenderImage ==
    /\ status = "new"
    /\ LET r == renderImage(scene, resolution, pattern)
       IN  /\ status' = IF r.threw THEN "error" ELSE "image"
           /\ pixels' = r.pixels
           /\ shaded' = IF r.threw THEN shaded ELSE [p \in Cells(resolution) |-> 1]
    /\ UNCHANGED <<resolution, pattern, scene, posArray, dists, calls, lastResult,
                   lastPos, lastDraws, tr, fr, csg, ud>>

\* renderPartialImage(renderPixel)(model, lightSources, resolution, random, pattern)
RenderPartialImage ==
    /\ status = "new"
    /\ LET pt == getMultisamplePattern(pattern)
       IN  /\ status' = IF pt.threw THEN "error" ELSE "partial"
           /\ pixels' = IF pt.threw THEN NoGrid
                        ELSE [p \in Cells(resolution) |-> getTransparent]
           /\ posArray' = IF pt.threw THEN <<>> ELSE RowMajor(resolution)
           /\ dists' = IF pt.threw THEN NoGrid
                       ELSE [p \in Cells(resolution) |->
                                [pixel |-> getTransparent, dist |-> Infinity]]
    /\ UNCHANGED <<resolution, pattern, scene, shaded, calls, lastResult, lastPos,
                   lastDraws, tr, fr, csg, ud>>

\* The scores getScore gives the worklist's elements, in worklist order.
RECURSIVE ScoresOf(_, _)
ScoresOf(ds, array) ==
    IF array = <<>> THEN <<>>
    ELSE <<getScore(ds, Head(array))>> \o ScoresOf(ds, Tail(array))

\* One call of step().
Step ==
    /\ status = "partial"
    /\ calls < resolution[1] * resolution[2] + ExtraCalls
    /\ calls' = calls + 1
    /\ \E scores \in {ScoresOf(dists, posArray)} :
       \E indices \in DrawChoices(Len(posArray)) :
       \E r \in {popMax(posArray, scores, indices)} :
          /\ lastDraws' = indices
          /\ lastPos' = r.value
          /\ posArray' = r.array
          /\ lastResult' = CASE r.kind = "throw" -> "throw"
                             [] r.kind = "undefined" -> "false"
                             [] OTHER -> "true"
          /\ dists' = IF r.kind = "value"
                      THEN updateDists(dists,
                                       posToPixel(scene, getMultisamplePattern(pattern).offsets,
                                                  r.value),
                                       r.value)
                      ELSE dists
          /\ pixels' = IF r.kind = "value"
                       THEN [p \in DOMAIN pixels |-> dists'[p].pixel]
                       ELSE pixels
          /\ shaded' = IF r.kind = "value"
                       THEN [shaded EXCEPT ![r.value] = @ + 1]
                       ELSE shaded
    /\ UNCHANGED <<status, resolution, pattern, scene, tr, fr, csg, ud>>

Next == RenderImage \/ RenderPartialImage \/ Step

Spec == Init /\ [][Next]_vars

\* ------------------------------------------------------------ renderer claims
NumCells == resolution[1] * resolution[2]
Rendered == {p \in Cells(resolution) : shaded[p] > 0}
IsStep == status = "partial" /\ calls' = calls + 1
Offsets == getMultisamplePattern(pattern).offsets

\* C1: on every R x C grid (1 x 1 included) the first R*C calls of step()
\* return true, every later call returns false, and no call throws.
C1_StepCount ==
    (status = "partial" /\ calls >= 1)
        => lastResult = (IF calls <= NumCells THEN "true" ELSE "false")

\* On every grid of two or more cells the count of C1 holds.
StepCountBeyondOneCell ==
    (status = "partial" /\ calls >= 1 /\ NumCells >= 2)
        => lastResult = (IF calls <= NumCells THEN "true" ELSE "false")

\* C2: once step() has returned false, every cell of the visible pixel grid
\* is the pixel renderImage computes for that cell (same scene, resolution
\* and pattern), whatever the random source drew.
C2_FinalMatchesFull ==
    (status = "partial" /\ lastResult = "false")
        => pixels = renderImage(scene, resolution, pattern).pixels

C2_Witness ==
    /\ status = "partial" /\ lastResult = "false"
    /\ resolution = <<2, 2>>
    /\ scene[<<0, 0>>] # scene[<<0, 1>>]
    /\ scene[<<0, 0>>] # scene[<<1, 1>>]

\* The sequence without its k-th element.
RemoveAt(seq, k) == SubSeq(seq, 1, k - 1) \o SubSeq(seq, k + 1, Len(seq))

\* C3: the coordinate a step() renders is an element of the worklist, it was
\* never rendered before, and a step() that returns true removes exactly that
\* coordinate and keeps the others in place.
C3_PopRemovesOne ==
    [][(IsStep /\ lastResult' = "true")
          => /\ \E k \in 1 .. Len(posArray) :
                    /\ posArray[k] = lastPos'
                    /\ posArray' = RemoveAt(posArray, k)
             /\ shaded[lastPos'] = 0
             /\ shaded' = [shaded EXCEPT ![lastPos'] = 1]]_vars

C3_Witness ==
    /\ status = "partial" /\ lastResult = "true"
    /\ calls = 2 /\ Len(posArray) = 2
    /\ lastPos = <<0, 1>>

\* Length of the shortest 8-neighbour path between two cells of a full
\* rectangular grid: min(dx, dy) diagonal moves and |dx - dy| straight ones.
GridDist(p, q) ==
    LET dx == Abs(p[1] - q[1])
        dy == Abs(p[2] - q[2])
        m == IF dx < dy THEN dx ELSE dy
    IN  Fin(dx + dy - 2 * m, m)

\* C4: after every step() that returns true, each cell's estimate holds the
\* shortest 8-neighbour path length to the nearest rendered cell and the
\* pixel of a rendered cell at that distance.
C4_Converged ==
    (status = "partial" /\ lastResult = "true")
        => \A p \in Cells(resolution) :
              \E q \in Rendered :
                 /\ dists[p].dist = GridDist(p, q)
                 /\ dists[p].pixel = posToPixel(scene, Offsets, q)
                 /\ \A t \in Rendered : DistLeq(GridDist(p, q), GridDist(p, t))

\* C11: through the step() calls of one progressive render no cell's distance
\* estimate increases from a step to the next; a rendered cell's estimate is
\* its own shaded pixel at distance 0 from the step that rendered it onwards;
\* a cell not yet rendered has an estimate above 0, +Infinity before the
\* first step.
C11_EstimatesMonotone ==
    /\ [](status = "partial"
            => \A p \in Cells(resolution) :
                  /\ shaded[p] > 0
                        => dists[p] = [pixel |-> posToPixel(scene, Offsets, p),
                                       dist |-> Fin(0, 0)]
                  /\ shaded[p] = 0
                        => /\ ~DistLeq(dists[p].dist, Fin(0, 0))
                           /\ calls = 0 => dists[p].dist = Infinity)
    /\ [][IsStep => \A p \in Cells(resolution) :
                       DistLeq(dists'[p].dist, dists[p].dist)]_vars

C11_Witness ==
    /\ status = "partial" /\ lastResult = "true"
    /\ calls = 3 /\ resolution = <<2, 2>>
    /\ \E p \in Cells(resolution) :
          /\ shaded[p] = 0
          /\ dists[p].dist = Fin(1, 0)
          /\ dists[p].pixel # posToPixel(scene, Offsets, p)

\* C8: with a pattern other than "1" or "8", renderImage and
\* renderPartialImage throw at the call: no pixel is shaded, no pixel grid,
\* estimate grid, worklist or step() comes back, and no pattern stands in.
C8_InvalidPatternRejected ==
    (pattern \notin ValidPatterns)
        => /\ status \in {"new", "error"}
           /\ pixels = NoGrid /\ dists = NoGrid /\ posArray = <<>>
           /\ \A p \in Cells(resolution) : shaded[p] = 0
           /\ calls = 0 /\ lastResult = "none"

C8_Witness == status = "error" /\ pattern \notin ValidPatterns /\ NumCells >= 2

\* x >= y as JavaScript compares numbers.
ScoreGeq(x, y) == ScoreLeq(y, x)

\* The position of the first occurrence of i in the drawn indices.
FirstDraw(draws, i) == CHOOSE k \in 1 .. Len(draws) :
                          draws[k] = i /\ \A m \in 1 .. k - 1 : draws[m] # i

\* C9: on a non-empty worklist popMax draws 32 indices and removes and returns
\* a sampled candidate whose score is >= the score of every other sampled
\* candidate, the first one sampled among those of equal top score.
C9_PopMaxPicksBest ==
    [][(IsStep /\ posArray # <<>> /\ lastResult' # "throw")
          => LET scores == ScoresOf(dists, posArray)
                 sampled == {lastDraws'[k] : k \in 1 .. Len(lastDraws')}
             IN  /\ Len(lastDraws') = sampleCount
                 /\ \E i \in sampled :
                       /\ get(posArray, i) = lastPos'
                       /\ posArray' = RemoveAt(posArray, i + 1)
                       /\ \A j \in sampled \ {i} :
                             /\ ScoreGeq(get(scores, i), get(scores, j))
                             /\ get(scores, j) = get(scores, i)
                                   => FirstDraw(lastDraws', i) < FirstDraw(lastDraws', j)]_vars

\* While no sampled score is NaN the selection of C9 holds.
PopMaxPicksBestWithoutNaN ==
    [][(IsStep /\ posArray # <<>> /\ lastResult' # "throw"
          /\ \A k \in 1 .. Len(posArray) : ScoresOf(dists, posArray)[k].kind # "nan")
          => LET scores == ScoresOf(dists, posArray)
                 sampled == {lastDraws'[k] : k \in 1 .. Len(lastDraws')}
             IN  \E i \in sampled :
                    /\ get(posArray, i) = lastPos'
                    /\ \A j \in sampled \ {i} :
                          /\ ScoreGeq(get(scores, i), get(scores, j))
                          /\ get(scores, j) = get(scores, i)
                                => FirstDraw(lastDraws', i) < FirstDraw(lastDraws', j)]_vars

\* ============================================================ trace
\* Distances along the ray are in units of 1e-4.
maxIterations == 1000
minMovement == 1
maxMovement == 100000000

\* The values the sdf may return at the marched positions: below minMovement,
\* equal to it, between the thresholds, equal to maxMovement, above it.
SdfVals == {0, minMovement, minMovement + 1, maxMovement, maxMovement + 1}

RendererOff ==
    /\ status = "off" /\ resolution = <<1, 1>> /\ pattern = "1"
    /\ scene = <<>> /\ pixels = NoGrid /\ posArray = <<>> /\ dists = NoGrid
    /\ shaded = <<>> /\ calls = 0 /\ lastResult = "none" /\ lastPos = NoPos
    /\ lastDraws = <<>>

\* trace's state at the call: pos = startPos (no advance made), i = 0.  evals
\* counts the sdf evaluations; firstLow and firstHigh are the ordinals of the
\* first evaluation below minMovement and above maxMovement (0: none yet).
traceStart ==
    [phase |-> "run", i |-> 0, pos |-> [advances |-> 0, lastStep |-> 0],
     evals |-> 0, firstLow |-> 0, firstHigh |-> 0]

\* The loop body with `dist <= minMovement` as the break test.
traceIterBreakOnEqual(t, dist) ==
    LET pos == [advances |-> t.pos.advances + 1, lastStep |-> dist]
        seen == [t EXCEPT !.evals = @ + 1, !.pos = pos,
                          !.firstLow = IF @ = 0 /\ dist < minMovement THEN t.evals + 1 ELSE @,
                          !.firstHigh = IF @ = 0 /\ dist > maxMovement THEN t.evals + 1 ELSE @]
    IN  IF dist <= minMovement THEN [seen EXCEPT !.phase = "hit"]
        ELSE IF dist > maxMovement THEN [seen EXCEPT !.phase = "undefined"]
        ELSE IF t.i + 1 < maxIterations THEN [seen EXCEPT !.i = t.i + 1]
        ELSE [seen EXCEPT !.i = t.i + 1, !.phase = "hit"]

\* One iteration of trace's for loop, the sdf returning dist at pos: advance,
\* then break below minMovement (return pos), return undefined above
\* maxMovement, and return pos when i reaches maxIterations.
traceIter(t, dist) ==
    LET pos == [advances |-> t.pos.advances + 1, lastStep |-> dist]
        seen == [t EXCEPT !.evals = @ + 1, !.pos = pos,
                          !.firstLow = IF @ = 0 /\ dist < minMovement THEN t.evals + 1 ELSE @,
                          !.firstHigh = IF @ = 0 /\ dist > maxMovement THEN t.evals + 1 ELSE @]
    IN  IF dist < minMovement THEN [seen EXCEPT !.phase = "hit"]
        ELSE IF dist > maxMovement THEN [seen EXCEPT !.phase = "undefined"]
        ELSE IF t.i + 1 < maxIterations THEN [seen EXCEPT !.i = t.i + 1]
        ELSE [seen EXCEPT !.i = t.i + 1, !.phase = "hit"]

TraceInit == RendererOff /\ tr = Idle /\ fr = Idle /\ csg = Idle /\ ud = Idle

TraceCall ==
    /\ tr.phase = "idle"
    /\ tr' = traceStart
    /\ UNCHANGED <<rendererVars, fr, csg, ud>>

TraceIter ==
    /\ tr.phase = "run"
    /\ \E dist \in SdfVals : tr' = traceIter(tr, dist)
    /\ UNCHANGED <<rendererVars, fr, csg, ud>>

TraceNext == TraceCall \/ TraceIter

TraceSpec == TraceInit /\ [][TraceNext]_vars

TraceReturned == tr.phase \in {"hit", "undefined"}

\* C5: trace evaluates the sdf at most 1000 times; it returns undefined
\* exactly when an evaluation gave d > 1e4 with every earlier d >= 1e-4;
\* otherwise it returns the position after the advance of the first
\* evaluation with d < 1e-4, or, after 1000 evaluations all within
\* [1e-4, 1e4], the last position reached.
C5_TraceResult ==
    /\ tr.phase # "idle" => tr.evals <= maxIterations
    /\ TraceReturned =>
          /\ (tr.phase = "undefined")
                <=> (tr.firstHigh # 0 /\ (tr.firstLow = 0 \/ tr.firstLow > tr.firstHigh))
          /\ (tr.phase = "hit" /\ tr.firstLow # 0)
                => tr.pos.advances = tr.firstLow /\ tr.pos.lastStep < minMovement
          /\ (tr.phase = "hit" /\ tr.firstLow = 0)
                => /\ tr.evals = maxIterations /\ tr.pos.advances = maxIterations
                   /\ tr.firstHigh = 0

C5_Witness ==
    /\ tr.phase = "hit" /\ tr.firstLow = 0 /\ tr.evals = maxIterations
    /\ tr.pos.lastStep = maxMovement

\* ============================================================ createFractal
MaxStack == 8
MaxCopies == 2

\* lod and detailFrac are dyadic rationals n / 2^e.
Dyadic(n, e) == [n |-> n, e |-> e]
RECURSIVE Pow2(_)
Pow2(e) == IF e = 0 THEN 1 ELSE 2 * Pow2(e - 1)
LessThanOne(x) == x.n < Pow2(x.e)
Times(x, y) == Dyadic(x.n * y.n, x.e + y.e)

Lods == {Dyadic(1, 1), Dyadic(1, 0), Dyadic(2, 0), Dyadic(4, 0)}
DetailFracs == {Dyadic(1, 1), Dyadic(1, 0), Dyadic(3, 1)}
CopyLists == UNION {[1 .. n -> DetailFracs] : n \in 0 .. MaxCopies}

\* One step of evaluating createFractal(copies)(model, lod, smoothness) on the
\* call stack: the top frame holds its lod and the copy whose sub-fractal
\* copies.map builds next.  A frame with lod < 1 returns model; otherwise
\* each copy makes a recursive call with lod * detailFrac and, after the last
\* copy, the frame returns the union.  A call beyond the engine's stack is a
\* RangeError.
createFractalStep(f) ==
    LET depth == Len(f.stack)
        top == f.stack[depth]
        popped == SubSeq(f.stack, 1, depth - 1)
        return == [f EXCEPT !.stack = popped,
                            !.phase = IF popped = <<>> THEN "done" ELSE "run"]
    IN  IF LessThanOne(top.lod) THEN return
        ELSE IF top.k > Len(f.copies) THEN return
        ELSE IF depth >= MaxStack THEN [f EXCEPT !.phase = "overflow"]
        ELSE [f EXCEPT !.stack = Append([f.stack EXCEPT ![depth].k = top.k + 1],
                                        [lod |-> Times(top.lod, f.copies[top.k]), k |-> 1])]

FractalInit == RendererOff /\ tr = Idle /\ fr = Idle /\ csg = Idle /\ ud = Idle

FractalCall ==
    /\ fr.phase = "idle"
    /\ \E copies \in CopyLists, lod \in Lods :
          fr' = [phase |-> "run", copies |-> copies, lod |-> lod,
                 stack |-> <<[lod |-> lod, k |-> 1]>>]
    /\ UNCHANGED <<rendererVars, tr, csg, ud>>

FractalStep ==
    /\ fr.phase = "run"
    /\ fr' = createFractalStep(fr)
    /\ UNCHANGED <<rendererVars, tr, csg, ud>>

FractalNext == FractalCall \/ FractalStep

FractalSpec == FractalInit /\ [][FractalNext]_vars

\* C6: for every copies list, lod and detailFrac (detailFrac >= 1 with
\* lod >= 1 included) building the fractal terminates: the recursion depth
\* is bounded and construction never recurses without end.
C6_FractalTerminates == fr.phase # "overflow"

\* With every detailFrac below 1 the recursion stays within the stack.
FractalShrinkingTerminates ==
    (fr.phase # "idle" /\ \A k \in 1 .. Len(fr.copies) : LessThanOne(fr.copies[k]))
        => fr.phase # "overflow" /\ Len(fr.stack) < MaxStack

\* ============================================================ smooth CSG
MaxList == 3

\* The values the member sdfs take at the point p, and the blend radii.
SdfAtP == {-4, -2, 0, 2, 4}
BlendRadii == {0, 1}
SdfLists == UNION {[1 .. n -> SdfAtP] : n \in 1 .. MaxList}

\* Math.sqrt on a natural number: the root when it is an integer, else its
\* integer part.  With k = 0 the argument is x * x and the root is |x|.
sqrt(n) == CHOOSE r \in 0 .. n : r * r <= n /\ n < (r + 1) * (r + 1)

\* smoothMin with the root added instead of subtracted.
smoothMinPlus(a, b, k) ==
    LET x == b - a
    IN  (a + b + sqrt(x * x + (2 * k) * (2 * k))) \div 2

\* smoothMin(a, b, k) = 0.5 * (a + b - Math.sqrt(x * x + (2 * k) ** 2))
smoothMin(a, b, k) ==
    LET x == b - a
    IN  (a + b - sqrt(x * x + (2 * k) * (2 * k))) \div 2

unionPair(a, b, k) == smoothMin(a, b, k)
intersectionPair(a, b, k) == -smoothMin(-a, -b, k)

\* sdfArray.reduce((s, v) => unionPair(s, v, k)) evaluated at p
RECURSIVE unionFold(_, _, _)
unionFold(s, rest, k) ==
    IF rest = <<>> THEN s ELSE unionFold(unionPair(s, Head(rest), k), Tail(rest), k)
union(sdfArray, k) == unionFold(Head(sdfArray), Tail(sdfArray), k)

\* sdfArray.reduce((s, v) => intersectionPair(s, v, k)) evaluated at p
RECURSIVE intersectionFold(_, _, _)
intersectionFold(s, rest, k) ==
    IF rest = <<>> THEN s
    ELSE intersectionFold(intersectionPair(s, Head(rest), k), Tail(rest), k)
intersection(sdfArray, k) == intersectionFold(Head(sdfArray), Tail(sdfArray), k)

CsgInit == RendererOff /\ tr = Idle /\ fr = Idle /\ csg = Idle /\ ud = Idle

\* union(list, k)(p) and intersection(list, k)(p) for one list and radius.
CsgEval ==
    /\ csg.phase = "idle"
    /\ \E list \in SdfLists, k \in BlendRadii :
          csg' = [phase |-> "evaluated", list |-> list, k |-> k,
                  union |-> union(list, k), intersection |-> intersection(list, k)]
    /\ UNCHANGED <<rendererVars, tr, fr, ud>>

CsgNext == CsgEval

CsgSpec == CsgInit /\ [][CsgNext]_vars

Min(a, b) == IF a <= b THEN a ELSE b
Max(a, b) == IF a >= b THEN a ELSE b
MinOf(list) == CHOOSE m \in {list[i] : i \in DOMAIN list} : \A i \in DOMAIN list : m <= list[i]
MaxOf(list) == CHOOSE m \in {list[i] : i \in DOMAIN list} : \A i \in DOMAIN list : m >= list[i]
Orderings(list) ==
    {[i \in DOMAIN list |-> list[perm[i]]] :
        perm \in {f \in [DOMAIN list -> DOMAIN list] : \A i, j \in DOMAIN list : f[i] = f[j] => i = j}}

MaxQueue == 16

\* The estimates a cell may hold before the call, and the two pixels.
PriorDists == {Infinity, Fin(0, 0), Fin(1, 0), Fin(0, 1), Fin(2, 0)}
OldPixel == Pixel(1, AlphaOne)
NewPixel == Pixel(2, AlphaOne)

UpdInit == RendererOff /\ tr = Idle /\ fr = Idle /\ csg = Idle /\ ud = Idle

\* updateDists(dists, pixel, pos) is called: the queue holds {pixel, pos, dist: 0}.
UpdCall ==
    /\ ud.phase = "idle"
    /\ \E res \in Resolutions :
       \E prior \in [Cells(res) -> PriorDists], pos \in Cells(res) :
          ud' = [phase |-> "run",
                 prior |-> [p \in Cells(res) |-> [pixel |-> OldPixel, dist |-> prior[p]]],
                 dists |-> [p \in Cells(res) |-> [pixel |-> OldPixel, dist |-> prior[p]]],
                 queue |-> <<[pixel |-> NewPixel, pos |-> pos, dist |-> Fin(0, 0)]>>]
    /\ UNCHANGED <<rendererVars, tr, fr, csg>>

\* One iteration of the while loop; the loop ends when the queue is empty.
UpdIter ==
    /\ ud.phase = "run"
    /\ \E st \in {UpdateDistsIter([dists |-> ud.dists, queue |-> ud.queue])} :
          ud' = [ud EXCEPT !.dists = st.dists,
                           !.queue = st.queue,
                           !.phase = IF st.queue = <<>> THEN "done"
                                     ELSE IF Len(st.queue) > MaxQueue THEN "overflow"
                                     ELSE "run"]
    /\ UNCHANGED <<rendererVars, tr, fr, csg>>

UpdNext == UpdCall \/ UpdIter

\* The loop is synchronous code: an iteration that can run does run.
UpdSpec == UpdInit /\ [][UpdNext]_vars /\ WF_vars(UpdIter)

\* C10: every call of updateDists terminates: the queue becomes empty from
\* every prior estimate grid and rendered position; an iteration overwrites
\* a cell or enqueues neighbours only when the entry's distance is strictly
\* below the cell's stored distance.
C10_UpdateDistsTerminates ==
    /\ [][(ud.phase = "run" /\ ud' # ud
             /\ (ud'.dists # ud.dists \/ Len(ud'.queue) >= Len(ud.queue)))
            => ~DistLeq(ud.dists[Head(ud.queue).pos].dist, Head(ud.queue).dist)]_vars
    /\ (ud.phase = "run") ~> (ud.phase = "done")

C10_Witness ==
    /\ ud.phase = "done"
    /\ DOMAIN ud.dists = Cells(<<2, 2>>)
    /\ \A p \in DOMAIN ud.dists : ud.dists[p] # ud.prior[p]

\* The queue stays below MaxQueue: the cap cuts no behaviour of the code.
UpdQueueBounded == ud.phase # "overflow" /\ (ud.phase = "run" => Len(ud.queue) < MaxQueue - 1)

====
